---- MODULE Spec2Model ----
(***************************************************************************)
(* Model of the two page-structured indexes of the repository:             *)
(*   - the B-tree of src/btree.py (LeafPage, NonLeafPage, BTreeIndex)      *)
(*   - the Linear Hashing index of src/linear_hash.py (HashPage,           *)
(*     LinearHashIndex)                                                    *)
(* together with the size accounting of src/base.py (get_size, Page).      *)
(* Positions are the 0-based positions of the Python code; a Python list   *)
(* s is the sequence s with s[i] (Python) = s[i + 1] (here).               *)
(***************************************************************************)
EXTENDS Integers, Sequences, FiniteSets, TLC

VARIABLES
    size,         \* BTreeIndex._size: the page size the tree was built with
    root,         \* BTreeIndex._root: the page tree
    bLive,        \* history: records inserted and not removed since, in insertion order
    bEver,        \* history: keys passed to BTreeIndex.insert so far
    bDistinct,    \* history: the keys of all inserts so far were pairwise distinct
    bFresh,       \* history: every insert had a key not held in bLive, every remove a key held in it
    bRemoves,     \* history: number of BTreeIndex.remove calls so far
    bOps,         \* history: number of B-tree inserts/removes so far
    bLast,        \* the last B-tree call, what it returned and whether it split the root
    level,        \* LinearHashIndex._level
    next_split,   \* LinearHashIndex._next_split
    num_buckets,  \* LinearHashIndex._num_buckets
    buckets,      \* LinearHashIndex._buckets: a list of chains, a chain a list of pages
    num_records,  \* LinearHashIndex._num_records
    num_splits,   \* LinearHashIndex._num_splits
    hMap,         \* history: the key-to-record map the hash index is to implement
    hNet,         \* history: inserts that returned true minus removes that returned true
    hLast,        \* the last hash call, what it returned and whether it split
    loader,       \* load_file: the rows of the file, the reader's position, the calls made
    cli           \* main(): the command line, where the run is and its exit status

bvars == <<size, root, bLive, bEver, bDistinct, bFresh, bRemoves, bOps, bLast>>
hvars == <<level, next_split, num_buckets, buckets, num_records, num_splits, hMap, hNet, hLast>>
vars == <<size, root, bLive, bEver, bDistinct, bFresh, bRemoves, bOps, bLast,
          level, next_split, num_buckets, buckets, num_records, num_splits, hMap, hNet, hLast,
          loader, cli>>

(***************************************************************************)
(* Bounds of the model and parameters of the constructors.                 *)
(***************************************************************************)
PageSize == 96          \* the size argument of LinearHashIndex
NarrowPageSize == 80    \* a size argument of BTreeIndex: a leaf of one record, a page of one key
WidePageSize == 128     \* a size argument of BTreeIndex: a leaf of two records, a page of two keys
InitialBuckets == 2     \* the initial_buckets argument of LinearHashIndex
UtilNum == 1            \* the utilization argument is UtilNum / UtilDen
UtilDen == 2
MaxKey == 3             \* B-tree keys are 1..MaxKey
MaxVal == 2             \* second attribute of a record is 1..MaxVal
MaxOps == 4             \* number of B-tree inserts and removes explored
MaxHashKey == 8         \* largest key given to the hash index
NegHashKey == 3         \* the hash index is also given the key -NegHashKey
RecursionLimit == 3     \* nested calls the interpreter runs before it raises RecursionError
OddPageSize == 100      \* the size argument of a HashPage: not a multiple of the pointer size

BKeys == 1..MaxKey
Vals == 1..MaxVal
\* rows of three integers, the record shape _need_split takes as typical
BRecords == {<<k, v, 0>> : k \in BKeys, v \in Vals}
BPageSizes == {NarrowPageSize, WidePageSize}
HKeys == {-NegHashKey, 1} \cup {k \in 0..MaxHashKey : k % 4 = 0}
HRecords == {<<k, v>> : k \in HKeys, v \in Vals}
\* rows of the key alone, as load_file reads the row '+,k'
ShortRecords == {<<k>> : k \in BKeys}
\* rows of four integers: as a list such a row is larger than PageSize
LongRecords == {<<k, 1, 0, 0>> : k \in HKeys}

(***************************************************************************)
(* The interpreter's object sizes, as returned by __sizeof__.              *)
(***************************************************************************)
IntSize == 28           \* int.__sizeof__() of an int below 2^30 in magnitude
TupleBase == 24         \* ().__sizeof__()
PtrSize == 8            \* each item of a tuple adds one pointer
PageObjSize == 24       \* object.__sizeof__() of a page instance

NoRecord == <<>>

(***************************************************************************)
(* Python list primitives.                                                 *)
(***************************************************************************)
Slice(s, a, b) == SubSeq(s, a + 1, b)                                  \* s[a:b]
ListInsert(s, pos, x) == SubSeq(s, 1, pos) \o <<x>> \o SubSeq(s, pos + 1, Len(s))
ListPop(s, i) == SubSeq(s, 1, i) \o SubSeq(s, i + 2, Len(s))           \* s.pop(i)

RECURSIVE Pow2(_)
Pow2(n) == IF n = 0 THEN 1 ELSE 2 * Pow2(n - 1)

(***************************************************************************)
(* base.get_size and Page.used_space.                                      *)
(***************************************************************************)
TupleSizeOf(t) == TupleBase + PtrSize * Len(t)

\* get_size of a list of ints: the sum of the sizes of its items
ListSizeOf(l) == IntSize * Len(l)

\* get_size(record): a list is summed over its items, a tuple is one object
get_size(record, isList) == IF isList THEN ListSizeOf(record) ELSE TupleSizeOf(record)

RECURSIVE SumTupleSizes(_)
SumTupleSizes(data) ==
    IF data = <<>> THEN 0 ELSE TupleSizeOf(Head(data)) + SumTupleSizes(Tail(data))

(***************************************************************************)
(* B-tree pages.  A page is <<class, _data>>; the data of a leaf is a list *)
(* of records, the data of a non-leaf page alternates child pages (Python  *)
(* positions 0, 2, ...) and keys (Python positions 1, 3, ...).             *)
(***************************************************************************)
LeafPage(data) == <<"LeafPage", data>>
NonLeafPage(data) == <<"NonLeafPage", data>>
IsLeaf(p) == p[1] = "LeafPage"           \* isinstance(p, LeafPage)
DataOf(p) == p[2]                        \* Page.data

\* Page.used_space: get_size(self._data); a child page counts as an object,
\* a key as an int
RECURSIVE SumSlotSizes(_, _)
SumSlotSizes(data, i) ==
    IF i > Len(data) THEN 0
    ELSE (IF i % 2 = 1 THEN PageObjSize ELSE IntSize) + SumSlotSizes(data, i + 1)

used_space(p) == IF IsLeaf(p) THEN SumTupleSizes(DataOf(p)) ELSE SumSlotSizes(DataOf(p), 1)

\* LeafPage.get_key_list / NonLeafPage.get_key_list
LeafKeyList(p) == [i \in 1..Len(DataOf(p)) |-> DataOf(p)[i][1]]
NonLeafKeyList(p) == [i \in 1..(Len(DataOf(p)) \div 2) |-> DataOf(p)[2 * i]]
get_key_list(p) == IF IsLeaf(p) THEN LeafKeyList(p) ELSE NonLeafKeyList(p)

\* the while loop shared by TreePage.binary_search and NonLeafPage.binary_search
RECURSIVE BSearchLoop(_, _, _, _)
BSearchLoop(L, key, begin, end) ==
    IF begin < end
    THEN LET h == (begin + end) \div 2
         IN  IF key < L[h + 1] THEN BSearchLoop(L, key, begin, h)
                               ELSE BSearchLoop(L, key, h + 1, end)
    ELSE begin

\* TreePage.binary_search(key)
LeafBinarySearch(p, key) == BSearchLoop(LeafKeyList(p), key, 0, Len(LeafKeyList(p)))

\* NonLeafPage.binary_search(key): the position of the child to descend to
NonLeafBinarySearch(p, key) ==
    BSearchLoop(NonLeafKeyList(p), key, 0, Len(NonLeafKeyList(p))) * 2

\* variant of LeafInsert that appends the record at the end of the page
LeafInsert_Append(p, record) ==
    LeafPage(Append(DataOf(p), record))

\* LeafPage.insert
LeafInsert(p, record) ==
    LeafPage(ListInsert(DataOf(p), LeafBinarySearch(p, record[1]), record))

\* variant of LeafSplit whose retained page keeps the record at mid too
LeafSplit_KeepMid(p) ==
    LET mid == Len(DataOf(p)) \div 2
    IN  <<LeafPage(Slice(DataOf(p), 0, mid + 1)), LeafPage(Slice(DataOf(p), mid, Len(DataOf(p))))>>

\* variant of LeafSplit that cuts one record lower in a leaf of even length
LeafSplit_CutLow(p) ==
    LET mid == (Len(DataOf(p)) - 1) \div 2
    IN  <<LeafPage(Slice(DataOf(p), 0, mid)), LeafPage(Slice(DataOf(p), mid, Len(DataOf(p))))>>

\* LeafPage.split: <<the page as retained, the new page>>
LeafSplit(p) ==
    LET mid == Len(DataOf(p)) \div 2
    IN  <<LeafPage(Slice(DataOf(p), 0, mid)), LeafPage(Slice(DataOf(p), mid, Len(DataOf(p))))>>

\* NonLeafPage.split: <<the page as retained, the new page>>
NonLeafSplit(p) ==
    LET half == Len(DataOf(p)) \div 2
        mid == IF half % 2 = 1 THEN half - 1 ELSE half
    IN  <<NonLeafPage(Slice(DataOf(p), 0, mid)), NonLeafPage(Slice(DataOf(p), mid, Len(DataOf(p))))>>

PageSplit(p) == IF IsLeaf(p) THEN LeafSplit(p) ELSE NonLeafSplit(p)

\* the separator taken from a new sibling: new_child.get_key(0) of a leaf,
\* new_child.get_key_list()[0] of a non-leaf page
SeparatorOf(new_child) == get_key_list(new_child)[1]

\* variant of SplitChild that puts the new sibling to the left of the page it
\* was split from
SplitChild_Swapped(p, child_pos) ==
    LET child == DataOf(p)[child_pos + 1]
        halves == PageSplit(child)
        new_key == SeparatorOf(halves[2])
        d0 == [DataOf(p) EXCEPT ![child_pos + 1] = halves[2]]
        d1 == ListInsert(d0, child_pos + 1, new_key)
    IN  NonLeafPage(ListInsert(d1, child_pos + 2, halves[1]))

\* variant of SplitChild that leaves the page as it is
SplitChild_Skip(p, child_pos) == p

\* NonLeafPage._split_child
SplitChild(p, child_pos) ==
    LET child == DataOf(p)[child_pos + 1]
        halves == PageSplit(child)
        new_key == SeparatorOf(halves[2])
        d0 == [DataOf(p) EXCEPT ![child_pos + 1] = halves[1]]
        d1 == ListInsert(d0, child_pos + 1, new_key)
    IN  NonLeafPage(ListInsert(d1, child_pos + 2, halves[2]))

\* LeafPage.insert / NonLeafPage.insert: the page after insert(record)
RECURSIVE PageInsert(_, _)
PageInsert(p, record) ==
    IF IsLeaf(p) THEN LeafInsert(p, record)
    ELSE LET child_pos == NonLeafBinarySearch(p, record[1])
         IN  IF child_pos < Len(DataOf(p))
             THEN LET child == PageInsert(DataOf(p)[child_pos + 1], record)
                      q == NonLeafPage([DataOf(p) EXCEPT ![child_pos + 1] = child])
                  IN  IF used_space(child) > size THEN SplitChild(q, child_pos) ELSE q
             ELSE p

\* position of the first record with the key in a list of records, -1 if none
RECURSIVE FirstMatch(_, _, _)
FirstMatch(data, key, i) ==
    IF i >= Len(data) THEN -1
    ELSE IF data[i + 1][1] = key THEN i ELSE FirstMatch(data, key, i + 1)

\* LeafPage.remove / NonLeafPage.remove: the page after remove(key) and the result
RECURSIVE PageRemove(_, _)
PageRemove(p, key) ==
    IF IsLeaf(p)
    THEN LET i == FirstMatch(DataOf(p), key, 0)
         IN  IF i >= 0 THEN [page |-> LeafPage(ListPop(DataOf(p), i)), result |-> TRUE]
                       ELSE [page |-> p, result |-> FALSE]
    ELSE LET child_pos == NonLeafBinarySearch(p, key)
         IN  IF child_pos < Len(DataOf(p))
             THEN LET r == PageRemove(DataOf(p)[child_pos + 1], key)
                  IN  [page |-> NonLeafPage([DataOf(p) EXCEPT ![child_pos + 1] = r.page]),
                       result |-> r.result]
             ELSE [page |-> p, result |-> FALSE]

\* LeafPage.search: every record of the leaf with the key, in leaf order
RECURSIVE LeafSearch(_, _)
LeafSearch(data, key) ==
    IF data = <<>> THEN <<>>
    ELSE (IF Head(data)[1] = key THEN <<Head(data)>> ELSE <<>>) \o LeafSearch(Tail(data), key)

\* LeafPage.search / NonLeafPage.search
RECURSIVE PageSearch(_, _)
PageSearch(p, key) ==
    IF IsLeaf(p) THEN LeafSearch(DataOf(p), key)
    ELSE LET child_pos == NonLeafBinarySearch(p, key)
         IN  IF child_pos < Len(DataOf(p)) THEN PageSearch(DataOf(p)[child_pos + 1], key)
                                        ELSE <<>>

\* variant of RootAfterInsert that never splits the root
RootAfterInsert_KeepRoot(r, record) == PageInsert(r, record)

\* variant of RootAfterInsert whose new root holds the new sibling one level
\* further down than the retained page
RootAfterInsert_Lopsided(r, record) ==
    LET r1 == PageInsert(r, record)
    IN  IF used_space(r1) > size
        THEN LET halves == PageSplit(r1)
             IN  NonLeafPage(<<halves[1], SeparatorOf(halves[2]), NonLeafPage(<<halves[2]>>)>>)
        ELSE r1

\* BTreeIndex.insert: the root after insert(record)
RootAfterInsert(r, record) ==
    LET r1 == PageInsert(r, record)
    IN  IF used_space(r1) > size
        THEN LET halves == PageSplit(r1)
             IN  NonLeafPage(<<halves[1], SeparatorOf(halves[2]), halves[2]>>)
        ELSE r1

\* variant of RootAfterRemove that cuts a non-leaf root down to its first child
RootAfterRemove_FirstChild(r, key) ==
    LET res == PageRemove(r, key)
    IN  [page |-> IF ~IsLeaf(res.page) THEN NonLeafPage(<<DataOf(res.page)[1]>>) ELSE res.page,
         result |-> res.result]

\* variant of RootAfterRemove that takes a leaf emptied by the remove out of
\* a root of two children
RootAfterRemove_Prune(r, key) ==
    LET res == PageRemove(r, key)
    IN  [page |-> IF ~IsLeaf(res.page) /\ Len(DataOf(res.page)) = 3
                     /\ DataOf(res.page)[3] = LeafPage(<<>>)
                  THEN DataOf(res.page)[1] ELSE res.page,
         result |-> res.result]

\* variant of RootAfterRemove that puts an empty leaf in the place of a root
\* whose two leaves are empty
RootAfterRemove_Shrink(r, key) ==
    LET res == PageRemove(r, key)
    IN  [page |-> IF ~IsLeaf(res.page) /\ Len(DataOf(res.page)) = 3
                     /\ DataOf(res.page)[1] = LeafPage(<<>>)
                     /\ DataOf(res.page)[3] = LeafPage(<<>>)
                  THEN LeafPage(<<>>) ELSE res.page,
         result |-> res.result]

\* BTreeIndex.remove: the root after remove(key) and the result
RootAfterRemove(r, key) ==
    LET res == PageRemove(r, key)
    IN  [page |-> IF ~IsLeaf(res.page) /\ Len(DataOf(res.page)) = 1
                  THEN DataOf(res.page)[1] ELSE res.page,
         result |-> res.result]

\* BTreeIndex.search
BTreeSearch(r, key) == PageSearch(r, key)

\* variant of LeafRange that leaves out the records whose key is max_key
RECURSIVE LeafRange_Exclusive(_, _, _, _)
LeafRange_Exclusive(data, min_key, max_key, results) ==
    IF data = <<>> THEN results
    ELSE LeafRange_Exclusive(Tail(data), min_key, max_key,
                   IF min_key <= Head(data)[1] /\ Head(data)[1] < max_key
                   THEN Append(results, Head(data)) ELSE results)

\* the leaf branch of _range_search_helper: results after the loop over node.data
RECURSIVE LeafRange(_, _, _, _)
LeafRange(data, min_key, max_key, results) ==
    IF data = <<>> THEN results
    ELSE LeafRange(Tail(data), min_key, max_key,
                   IF min_key <= Head(data)[1] /\ Head(data)[1] <= max_key
                   THEN Append(results, Head(data)) ELSE results)

\* BTreeIndex._range_search_helper: results after the visit of node; a
\* non-leaf page passes results through its children at positions 0, 2, ...
RECURSIVE range_search_helper(_, _, _, _), RangeChildren(_, _, _, _, _)
range_search_helper(node, min_key, max_key, results) ==
    IF IsLeaf(node) THEN LeafRange(DataOf(node), min_key, max_key, results)
    ELSE RangeChildren(DataOf(node), 1, min_key, max_key, results)
RangeChildren(data, i, min_key, max_key, results) ==
    IF i > Len(data) THEN results
    ELSE RangeChildren(data, i + 2, min_key, max_key,
                       range_search_helper(data[i], min_key, max_key, results))

\* BTreeIndex.range_search
range_search(r, min_key, max_key) == range_search_helper(r, min_key, max_key, <<>>)

\* BTreeIndex._get_height
RECURSIVE HeightFrom(_, _)
get_height(p) == IF IsLeaf(p) THEN 1 ELSE 1 + HeightFrom(DataOf(p), 1)
HeightFrom(data, i) ==
    IF i > Len(data) THEN 0
    ELSE LET h == get_height(data[i])
             rest == HeightFrom(data, i + 2)
         IN  IF h > rest THEN h ELSE rest

\* BTreeIndex._count_nodes
RECURSIVE NodesFrom(_, _)
count_nodes(p) == IF IsLeaf(p) THEN 1 ELSE 1 + NodesFrom(DataOf(p), 1)
NodesFrom(data, i) ==
    IF i > Len(data) THEN 0 ELSE count_nodes(data[i]) + NodesFrom(data, i + 2)

\* BTreeIndex._count_records
RECURSIVE RecordCountFrom(_, _)
count_records(p) == IF IsLeaf(p) THEN Len(DataOf(p)) ELSE RecordCountFrom(DataOf(p), 1)
RecordCountFrom(data, i) ==
    IF i > Len(data) THEN 0 ELSE count_records(data[i]) + RecordCountFrom(data, i + 2)

\* BTreeIndex._count_leaf_nodes
RECURSIVE LeavesFrom(_, _)
count_leaf_nodes(p) == IF IsLeaf(p) THEN 1 ELSE LeavesFrom(DataOf(p), 1)
LeavesFrom(data, i) ==
    IF i > Len(data) THEN 0 ELSE count_leaf_nodes(data[i]) + LeavesFrom(data, i + 2)

(***************************************************************************)
(* History of the B-tree calls.                                            *)
(***************************************************************************)
RECURSIVE WithKey(_, _)
WithKey(s, key) ==
    IF s = <<>> THEN <<>>
    ELSE (IF Head(s)[1] = key THEN <<Head(s)>> ELSE <<>>) \o WithKey(Tail(s), key)

DropFirstWithKey(s, key) ==
    LET i == FirstMatch(s, key, 0) IN IF i >= 0 THEN ListPop(s, i) ELSE s

KeysOf(s) == {s[i][1] : i \in 1..Len(s)}

(***************************************************************************)
(* Hash buckets.  A bucket chain is the list of its pages, the head first  *)
(* and each _overflow page after the page that points to it; a page is the *)
(* list of its records.  Positions in a chain are 1-based.                 *)
(***************************************************************************)
EmptyChain == <<(<<>>)>>         \* HashPage(size): no records, _overflow = None

\* variant of ChainSearch that does not follow _overflow
ChainSearch_HeadOnly(chain, i, key) ==
    LET m == FirstMatch(chain[i], key, 0)
    IN  IF m >= 0 THEN <<chain[i][m + 1]>> ELSE <<>>

\* HashPage.search on the page at position i of the chain
RECURSIVE ChainSearch(_, _, _)
ChainSearch(chain, i, key) ==
    LET m == FirstMatch(chain[i], key, 0)
    IN  IF m >= 0 THEN <<chain[i][m + 1]>>
        ELSE IF i < Len(chain) THEN ChainSearch(chain, i + 1, key)
        ELSE <<>>

\* variant of ChainInsert without the duplicate check
RECURSIVE ChainInsert_NoDupCheck(_, _, _, _)
ChainInsert_NoDupCheck(chain, i, record, isList) ==
    IF SumTupleSizes(chain[i]) + get_size(record, isList) <= PageSize
    THEN [chain |-> [chain EXCEPT ![i] = Append(@, record)], ok |-> TRUE]
    ELSE ChainInsert_NoDupCheck(IF i = Len(chain) THEN Append(chain, <<>>) ELSE chain,
                                i + 1, record, isList)

\* variant of ChainInsert that overwrites the stored record of a duplicate key
RECURSIVE ChainReplace(_, _, _)
ChainReplace(chain, i, record) ==
    LET m == FirstMatch(chain[i], record[1], 0)
    IN  IF m >= 0 THEN [chain EXCEPT ![i][m + 1] = record]
        ELSE IF i < Len(chain) THEN ChainReplace(chain, i + 1, record)
        ELSE chain

ChainInsert_Overwrite(chain, i, record, isList) ==
    IF ChainSearch(chain, i, record[1]) # <<>>
    THEN [chain |-> ChainReplace(chain, i, record), ok |-> FALSE]
    ELSE ChainInsert_NoDupCheck(chain, i, record, isList)

\* HashPage.insert on the page at position i of the chain
RECURSIVE ChainInsert(_, _, _, _)
ChainInsert(chain, i, record, isList) ==
    IF ChainSearch(chain, i, record[1]) # <<>>
    THEN [chain |-> chain, ok |-> FALSE]
    ELSE IF SumTupleSizes(chain[i]) + get_size(record, isList) <= PageSize
         THEN [chain |-> [chain EXCEPT ![i] = Append(@, record)], ok |-> TRUE]
         ELSE ChainInsert(IF i = Len(chain) THEN Append(chain, <<>>) ELSE chain,
                          i + 1, record, isList)

\* variant of ChainRemove that, finding no record with the key, takes the
\* first record out of the last page it looked at
RECURSIVE ChainRemove_PopOnMiss(_, _, _)
ChainRemove_PopOnMiss(chain, i, key) ==
    LET m == FirstMatch(chain[i], key, 0)
    IN  IF m >= 0 THEN [chain |-> [chain EXCEPT ![i] = ListPop(@, m)], ok |-> TRUE]
        ELSE IF i < Len(chain) THEN ChainRemove_PopOnMiss(chain, i + 1, key)
        ELSE [chain |-> [chain EXCEPT ![i] = IF @ = <<>> THEN @ ELSE Tail(@)], ok |-> FALSE]

\* HashPage.remove on the page at position i of the chain
RECURSIVE ChainRemove(_, _, _)
ChainRemove(chain, i, key) ==
    LET m == FirstMatch(chain[i], key, 0)
    IN  IF m >= 0 THEN [chain |-> [chain EXCEPT ![i] = ListPop(@, m)], ok |-> TRUE]
        ELSE IF i < Len(chain) THEN ChainRemove(chain, i + 1, key)
        ELSE [chain |-> chain, ok |-> FALSE]

\* HashPage.insert on the page at position i of a chain of pages built
\* with the size page_size
RECURSIVE HashPageInsert(_, _, _, _, _)
HashPageInsert(page_size, chain, i, record, isList) ==
    IF ChainSearch(chain, i, record[1]) # <<>>
    THEN [chain |-> chain, ok |-> FALSE]
    ELSE IF SumTupleSizes(chain[i]) + get_size(record, isList) <= page_size
         THEN [chain |-> [chain EXCEPT ![i] = Append(@, record)], ok |-> TRUE]
         ELSE HashPageInsert(page_size, IF i = Len(chain) THEN Append(chain, <<>>) ELSE chain,
                             i + 1, record, isList)

\* HashPage.insert of a record that no page has room for and whose key is
\* not in the chain: each call finds used_space + get_size(record) > size,
\* creates the overflow page if there is none and calls insert on it, until
\* the interpreter stops the nesting; the chain is left with the pages made
RECURSIVE ChainOverflowing(_, _)
ChainOverflowing(chain, i) ==
    IF i >= RecursionLimit THEN chain
    ELSE ChainOverflowing(IF i = Len(chain) THEN Append(chain, <<>>) ELSE chain, i + 1)

\* HashPage.get_all_records
RECURSIVE get_all_records(_)
get_all_records(chain) ==
    IF chain = <<>> THEN <<>> ELSE Head(chain) \o get_all_records(Tail(chain))

\* HashPage.count_overflow_pages
count_overflow_pages(chain) == Len(chain) - 1

(***************************************************************************)
(* The Linear Hashing engine.                                              *)
(***************************************************************************)
\* LinearHashIndex._hash
Hash(key, lvl) == key % (Pow2(lvl) * InitialBuckets)

\* variant of BucketIndex that always takes h_(level+1)
BucketIndex_NextLevel(key, lvl, sp) == Hash(key, lvl + 1)

\* LinearHashIndex._get_bucket_index under a given level and split pointer
BucketIndex(key, lvl, sp) ==
    LET bucket_idx == Hash(key, lvl)
    IN  IF bucket_idx < sp THEN Hash(key, lvl + 1) ELSE bucket_idx

get_bucket_index(key) == BucketIndex(key, level, next_split)

\* variant of need_split that sees the record count before its increment
need_split_PreIncrement(nr, nb) ==
    (nr - 1) * ListSizeOf(<<0, 0, 0>>) * UtilDen >= UtilNum * nb * PageSize

\* LinearHashIndex._need_split with num_records = nr and num_buckets = nb:
\* (nr / nb) / (size / get_size([0, 0, 0])) >= utilization, in exact arithmetic
need_split(nr, nb) ==
    nr * ListSizeOf(<<0, 0, 0>>) * UtilDen >= UtilNum * nb * PageSize

\* variant of Redistribute that rehashes with h_level instead of h_(level+1)
RECURSIVE Redistribute_SameLevel(_, _, _, _, _)
Redistribute_SameLevel(records, old_bucket, new_bucket, old_bucket_idx, lvl) ==
    IF records = <<>> THEN <<old_bucket, new_bucket>>
    ELSE LET record == Head(records)
         IN  IF Hash(record[1], lvl) = old_bucket_idx
             THEN Redistribute_SameLevel(Tail(records),
                               ChainInsert(old_bucket, 1, record, FALSE).chain,
                               new_bucket, old_bucket_idx, lvl)
             ELSE Redistribute_SameLevel(Tail(records), old_bucket,
                               ChainInsert(new_bucket, 1, record, FALSE).chain,
                               old_bucket_idx, lvl)

\* variant of Redistribute that re-inserts only the records that stay in the old bucket
RECURSIVE Redistribute_KeptOnly(_, _, _, _, _)
Redistribute_KeptOnly(records, old_bucket, new_bucket, old_bucket_idx, lvl) ==
    IF records = <<>> THEN <<old_bucket, new_bucket>>
    ELSE LET record == Head(records)
         IN  IF Hash(record[1], lvl + 1) = old_bucket_idx
             THEN Redistribute_KeptOnly(Tail(records),
                               ChainInsert(old_bucket, 1, record, FALSE).chain,
                               new_bucket, old_bucket_idx, lvl)
             ELSE Redistribute_KeptOnly(Tail(records), old_bucket, new_bucket,
                               old_bucket_idx, lvl)

\* the loop of _split that re-inserts the drained records (as tuples)
RECURSIVE Redistribute(_, _, _, _, _)
Redistribute(records, old_bucket, new_bucket, old_bucket_idx, lvl) ==
    IF records = <<>> THEN <<old_bucket, new_bucket>>
    ELSE LET record == Head(records)
         IN  IF Hash(record[1], lvl + 1) = old_bucket_idx
             THEN Redistribute(Tail(records),
                               ChainInsert(old_bucket, 1, record, FALSE).chain,
                               new_bucket, old_bucket_idx, lvl)
             ELSE Redistribute(Tail(records), old_bucket,
                               ChainInsert(new_bucket, 1, record, FALSE).chain,
                               old_bucket_idx, lvl)

\* variant of SplitBuckets that does not clear the old bucket before re-inserting
SplitBuckets_NoClear(b, lvl, sp) ==
    LET old_bucket_idx == sp
        appended == Append(b, EmptyChain)
        records == get_all_records(b[old_bucket_idx + 1])
        pair == Redistribute(records, b[old_bucket_idx + 1], EmptyChain,
                             old_bucket_idx, lvl)
    IN  [appended EXCEPT ![old_bucket_idx + 1] = pair[1], ![Len(appended)] = pair[2]]

\* variant of SplitBuckets that appends two pages to the table
SplitBuckets_Twice(b, lvl, sp) ==
    LET old_bucket_idx == sp
        appended == Append(b, EmptyChain)
        records == get_all_records(b[old_bucket_idx + 1])
        pair == Redistribute(records, EmptyChain, EmptyChain, old_bucket_idx, lvl)
    IN  Append([appended EXCEPT ![old_bucket_idx + 1] = pair[1], ![Len(appended)] = pair[2]],
               EmptyChain)

\* LinearHashIndex._split applied to the table b under level lvl and split pointer sp
SplitBuckets(b, lvl, sp) ==
    LET old_bucket_idx == sp
        appended == Append(b, EmptyChain)
        records == get_all_records(b[old_bucket_idx + 1])
        pair == Redistribute(records, EmptyChain, EmptyChain, old_bucket_idx, lvl)
    IN  [appended EXCEPT ![old_bucket_idx + 1] = pair[1], ![Len(appended)] = pair[2]]

\* variant of NextSplitAfter that resets the pointer one split too late
NextSplitAfter_Late(lvl, sp) == IF sp + 1 > Pow2(lvl) * InitialBuckets THEN 0 ELSE sp + 1

\* the end of _split: the split pointer and the level after a split
NextSplitAfter(lvl, sp) == IF sp + 1 >= Pow2(lvl) * InitialBuckets THEN 0 ELSE sp + 1

\* variant of LevelAfter that starts over at level 0 when a round above level 0 ends
LevelAfter_StartOver(lvl, sp) ==
    IF sp + 1 >= Pow2(lvl) * InitialBuckets THEN (IF lvl >= 1 THEN 0 ELSE lvl + 1) ELSE lvl

LevelAfter(lvl, sp) == IF sp + 1 >= Pow2(lvl) * InitialBuckets THEN lvl + 1 ELSE lvl

\* variant of HashSearch that answers only the first of two searches in a row
HashSearch_Once(key) ==
    IF hLast.op = "search" THEN <<>>
    ELSE ChainSearch(buckets[get_bucket_index(key) + 1], 1, key)

\* LinearHashIndex.search
HashSearch(key) == ChainSearch(buckets[get_bucket_index(key) + 1], 1, key)

\* every record of the table, bucket by bucket
RECURSIVE AllRecordsFrom(_, _)
AllRecordsFrom(b, i) ==
    IF i > Len(b) THEN <<>> ELSE get_all_records(b[i]) \o AllRecordsFrom(b, i + 1)

(***************************************************************************)
(* Initial states: BTreeIndex.__init__ and LinearHashIndex.__init__.       *)
(***************************************************************************)
BTreeInit ==
    /\ size \in BPageSizes
    /\ root = LeafPage(<<>>)
    /\ bLive = <<>>
    /\ bEver = {}
    /\ bDistinct = TRUE
    /\ bFresh = TRUE
    /\ bRemoves = 0
    /\ bOps = 0
    /\ bLast = [op |-> "new", key |-> 0, max_key |-> 0, rec |-> NoRecord, ret |-> TRUE,
                found |-> <<>>, split |-> FALSE]

HashInit ==
    /\ level = 0
    /\ next_split = 0
    /\ num_buckets = InitialBuckets
    /\ buckets = [i \in 1..InitialBuckets |-> EmptyChain]
    /\ num_records = 0
    /\ num_splits = 0
    /\ hMap = [k \in HKeys |-> NoRecord]
    /\ hNet = 0
    /\ hLast = [op |-> "new", key |-> 0, rec |-> NoRecord, ret |-> TRUE, exp |-> TRUE,
                found |-> <<>>, split |-> FALSE, raised |-> FALSE]

\* no file is given: load_file is not called
LoaderIdle ==
    loader = [type |-> "none", rows |-> <<>>, position |-> 0, status |-> "idle", applied |-> <<>>]

\* the engine is driven without the command line
CliIdle ==
    cli = [status |-> "idle", type |-> "none", page_size |-> 0, utilization |-> 0,
           range |-> FALSE, file |-> "none", rows |-> <<>>, code |-> 0, outcome |-> "none"]

Init == BTreeInit /\ HashInit /\ LoaderIdle /\ CliIdle

(***************************************************************************)
(* The B-tree operations.                                                  *)
(***************************************************************************)
\* BTreeIndex.insert(record)
BTreeInsert(record) ==
    /\ bOps < MaxOps
    /\ root' = RootAfterInsert(root, record)
    /\ bLive' = Append(bLive, record)
    /\ bEver' = bEver \cup {record[1]}
    /\ bDistinct' = (bDistinct /\ record[1] \notin bEver)
    /\ bFresh' = (bFresh /\ record[1] \notin KeysOf(bLive))
    /\ bOps' = bOps + 1
    /\ bLast' = [op |-> "insert", key |-> record[1], max_key |-> 0, rec |-> record, ret |-> TRUE,
                 found |-> <<>>,
                 split |-> used_space(PageInsert(root, record)) > size]   \* 'Root needs to be split'
    /\ UNCHANGED <<size, bRemoves>>
    /\ UNCHANGED hvars

\* BTreeIndex.remove(key)
BTreeRemove(key) ==
    /\ bOps < MaxOps
    /\ LET res == RootAfterRemove(root, key)
       IN  /\ root' = res.page
           /\ bLast' = [op |-> "remove", key |-> key, max_key |-> 0, rec |-> NoRecord,
                        ret |-> res.result, found |-> <<>>, split |-> FALSE]
    /\ bLive' = DropFirstWithKey(bLive, key)
    /\ bFresh' = (bFresh /\ key \in KeysOf(bLive))
    /\ bRemoves' = bRemoves + 1
    /\ bOps' = bOps + 1
    /\ UNCHANGED <<size, bEver, bDistinct>>
    /\ UNCHANGED hvars

\* BTreeIndex.search(key)
BTreeSearchOp(key) ==
    /\ bLast' = [op |-> "search", key |-> key, max_key |-> 0, rec |-> NoRecord, ret |-> TRUE,
                 found |-> BTreeSearch(root, key), split |-> FALSE]
    /\ UNCHANGED <<size, root, bLive, bEver, bDistinct, bFresh, bRemoves, bOps>>
    /\ UNCHANGED hvars

\* BTreeIndex.range_search(min_key, max_key)
BTreeRangeSearchOp(min_key, max_key) ==
    /\ bLast' = [op |-> "range_search", key |-> min_key, max_key |-> max_key,
                 rec |-> NoRecord, ret |-> TRUE,
                 found |-> range_search(root, min_key, max_key), split |-> FALSE]
    /\ UNCHANGED <<size, root, bLive, bEver, bDistinct, bFresh, bRemoves, bOps>>
    /\ UNCHANGED hvars

(***************************************************************************)
(* The hash operations.                                                    *)
(***************************************************************************)
\* LinearHashIndex.insert(record); the record arrives as a list from
\* load_file and as a tuple from menu
HashInsert(record, isList) ==
    LET key == record[1]
        bucket_idx == get_bucket_index(key)
        r == ChainInsert(buckets[bucket_idx + 1], 1, record, isList)
        mid == [buckets EXCEPT ![bucket_idx + 1] = r.chain]   \* the pages are updated in place
        doSplit == r.ok /\ need_split(num_records + 1, num_buckets)
    IN  /\ IF r.ok
           THEN /\ num_records' = num_records + 1
                /\ IF doSplit
                   THEN /\ num_splits' = num_splits + 1
                        /\ num_buckets' = num_buckets + 1
                        /\ buckets' = SplitBuckets(mid, level, next_split)
                        /\ next_split' = NextSplitAfter(level, next_split)
                        /\ level' = LevelAfter(level, next_split)
                   ELSE /\ buckets' = mid
                        /\ UNCHANGED <<num_splits, num_buckets, next_split, level>>
           ELSE /\ buckets' = mid
                /\ UNCHANGED <<num_records, num_splits, num_buckets, next_split, level>>
        /\ hMap' = IF hMap[key] = NoRecord THEN [hMap EXCEPT ![key] = record] ELSE hMap
        /\ hNet' = IF r.ok THEN hNet + 1 ELSE hNet
        /\ hLast' = [op |-> "insert", key |-> key, rec |-> record, ret |-> r.ok,
                     exp |-> (hMap[key] = NoRecord), found |-> <<>>,
                     split |-> doSplit, raised |-> FALSE]
        /\ UNCHANGED bvars

\* LinearHashIndex.insert(record) for a record with
\* get_size(record) > size: a page has room for it at no occupancy
HashInsertOversize(record, isList) ==
    LET key == record[1]
        bucket_idx == get_bucket_index(key)
        chain == buckets[bucket_idx + 1]
        dup == ChainSearch(chain, 1, key) # <<>>     \* 'if self.search(key): return False'
    IN  /\ get_size(record, isList) > PageSize
        /\ buckets' = IF dup THEN buckets
                      ELSE [buckets EXCEPT ![bucket_idx + 1] = ChainOverflowing(chain, 1)]
        /\ hLast' = [op |-> "insert", key |-> key, rec |-> record, ret |-> FALSE,
                     exp |-> (hMap[key] = NoRecord), found |-> <<>>,
                     split |-> FALSE, raised |-> ~dup]
        /\ UNCHANGED <<level, next_split, num_buckets, num_records, num_splits, hMap, hNet>>
        /\ UNCHANGED bvars

\* LinearHashIndex.remove(key)
HashRemove(key) ==
    LET bucket_idx == get_bucket_index(key)
        r == ChainRemove(buckets[bucket_idx + 1], 1, key)
    IN  /\ buckets' = [buckets EXCEPT ![bucket_idx + 1] = r.chain]
        /\ num_records' = IF r.ok THEN num_records - 1 ELSE num_records
        /\ hMap' = [hMap EXCEPT ![key] = NoRecord]
        /\ hNet' = IF r.ok THEN hNet - 1 ELSE hNet
        /\ hLast' = [op |-> "remove", key |-> key, rec |-> NoRecord, ret |-> r.ok,
                     exp |-> (hMap[key] # NoRecord), found |-> <<>>,
                     split |-> FALSE, raised |-> FALSE]
        /\ UNCHANGED <<level, next_split, num_buckets, num_splits>>
        /\ UNCHANGED bvars

\* LinearHashIndex.search(key)
HashSearchOp(key) ==
    /\ hLast' = [op |-> "search", key |-> key, rec |-> NoRecord, ret |-> TRUE,
                 exp |-> TRUE, found |-> HashSearch(key), split |-> FALSE, raised |-> FALSE]
    /\ UNCHANGED <<level, next_split, num_buckets, buckets, num_records, num_splits, hMap, hNet>>
    /\ UNCHANGED bvars

(***************************************************************************)
(* Specifications: a run drives one engine, as main() constructs one.      *)
(***************************************************************************)
\* The tree reads only record[0]; the second attribute tells the records of
\* one key apart: the i-th record stored with a key carries i, MaxVal at most.
NextTag(key) ==
    IF Len(WithKey(bLive, key)) + 1 < MaxVal THEN Len(WithKey(bLive, key)) + 1 ELSE MaxVal

BTreeNext ==
    \/ UNCHANGED <<loader, cli>> /\ \E record \in BRecords : record[2] = NextTag(record[1]) /\ BTreeInsert(record)
    \/ UNCHANGED <<loader, cli>> /\ \E key \in BKeys : BTreeRemove(key)
    \/ UNCHANGED <<loader, cli>> /\ \E key \in BKeys : BTreeSearchOp(key)
    \/ UNCHANGED <<loader, cli>> /\ \E min_key \in BKeys, max_key \in BKeys : BTreeRangeSearchOp(min_key, max_key)

HashNext ==
    \/ UNCHANGED <<loader, cli>> /\ \E record \in HRecords, isList \in BOOLEAN : HashInsert(record, isList)
    \/ UNCHANGED <<loader, cli>> /\ \E key \in HKeys : HashRemove(key)
    \/ UNCHANGED <<loader, cli>> /\ \E key \in HKeys : HashSearchOp(key)

\* the calls of a run that is also given rows too long for a page; the
\* exception of a call ends the run
LongRowNext ==
    \/ ~hLast.raised /\ HashNext
    \/ ~hLast.raised /\ UNCHANGED <<loader, cli>> /\ \E record \in LongRecords : HashInsertOversize(record, TRUE)

Next == BTreeNext \/ HashNext

\* main() builds one engine per run: the run works on the B-tree or on the
\* hash index, never on both
MainNext ==
    \/ hLast.op = "new" /\ BTreeNext
    \/ bLast.op = "new" /\ size = NarrowPageSize /\ HashNext

BTreeSpec == Init /\ [][BTreeNext]_vars
\* a run on the hash index builds no tree: the tree stays as constructed
\* with the first of its sizes
HashInitial == Init /\ size = NarrowPageSize
HashSpec == HashInitial /\ [][HashNext]_vars
Spec == Init /\ [][Next]_vars
MainSpec == Init /\ [][MainNext]_vars
LongRowSpec == HashInitial /\ [][LongRowNext]_vars

(***************************************************************************)
(* A HashPage of the size OddPageSize called directly: the page and its    *)
(* overflow pages are the chain buckets[1]; the index around it is idle.   *)
(***************************************************************************)
\* the records given to the page: a key alone, or a key and one more field
PageRecords == ShortRecords \cup {<<k, 1>> : k \in BKeys}

\* HashPage.insert(record)
PageInsertOp(record, isList) ==
    LET r == HashPageInsert(OddPageSize, buckets[1], 1, record, isList)
    IN  /\ buckets' = [buckets EXCEPT ![1] = r.chain]
        /\ hLast' = [op |-> "insert", key |-> record[1], rec |-> record, ret |-> r.ok,
                     exp |-> (ChainSearch(buckets[1], 1, record[1]) = <<>>), found |-> <<>>,
                     split |-> FALSE, raised |-> FALSE]
        /\ UNCHANGED <<level, next_split, num_buckets, num_records, num_splits, hMap, hNet>>
        /\ UNCHANGED bvars

\* HashPage.remove(key)
PageRemoveOp(key) ==
    LET r == ChainRemove(buckets[1], 1, key)
    IN  /\ buckets' = [buckets EXCEPT ![1] = r.chain]
        /\ hLast' = [op |-> "remove", key |-> key, rec |-> NoRecord, ret |-> r.ok,
                     exp |-> (ChainSearch(buckets[1], 1, key) # <<>>), found |-> <<>>,
                     split |-> FALSE, raised |-> FALSE]
        /\ UNCHANGED <<level, next_split, num_buckets, num_records, num_splits, hMap, hNet>>
        /\ UNCHANGED bvars

\* HashPage.search(key)
PageSearchOp(key) ==
    /\ hLast' = [op |-> "search", key |-> key, rec |-> NoRecord, ret |-> TRUE, exp |-> TRUE,
                 found |-> ChainSearch(buckets[1], 1, key), split |-> FALSE, raised |-> FALSE]
    /\ UNCHANGED <<level, next_split, num_buckets, buckets, num_records, num_splits, hMap, hNet>>
    /\ UNCHANGED bvars

ChainNext ==
    \/ UNCHANGED <<loader, cli>> /\ \E record \in PageRecords, isList \in BOOLEAN :
                                       PageInsertOp(record, isList)
    \/ UNCHANGED <<loader, cli>> /\ \E key \in BKeys : PageRemoveOp(key)
    \/ UNCHANGED <<loader, cli>> /\ \E key \in BKeys : PageSearchOp(key)

ChainSpec == HashInitial /\ [][ChainNext]_vars

(***************************************************************************)
(* load_file: the script loader.  A file is the list of rows csv.reader    *)
(* yields; a row is a list of fields and a field a list of characters.     *)
(***************************************************************************)
MaxRows == 3            \* rows of a file after its first row

Digits == <<"0", "1", "2", "3", "4", "5", "6", "7", "8", "9">>
DigitValue(c) == (CHOOSE d \in 1..Len(Digits) : Digits[d] = c) - 1
IsDigit(c) == \E d \in 1..Len(Digits) : Digits[d] = c

\* str.strip() of a field, as int() applies it to its argument
RECURSIVE LStrip(_)
LStrip(text) == IF text # <<>> /\ Head(text) = " " THEN LStrip(Tail(text)) ELSE text
RECURSIVE RStrip(_)
RStrip(text) ==
    IF text # <<>> /\ text[Len(text)] = " " THEN RStrip(SubSeq(text, 1, Len(text) - 1)) ELSE text
Strip(text) == RStrip(LStrip(text))

RECURSIVE DigitsValue(_, _)
DigitsValue(text, acc) ==
    IF text = <<>> THEN acc ELSE DigitsValue(Tail(text), 10 * acc + DigitValue(Head(text)))

\* int(value): ok is false where int raises ValueError
ParseInt_Lenient(value) ==
    LET t == Strip(value)
        signed == t # <<>> /\ Head(t) \in {"+", "-"}
        body == SelectSeq(IF signed THEN Tail(t) ELSE t, IsDigit)
        magnitude == DigitsValue(body, 0)
    IN  [ok |-> TRUE, value |-> IF signed /\ Head(t) = "-" THEN 0 - magnitude ELSE magnitude]

ParseInt(value) ==
    LET t == Strip(value)
        signed == t # <<>> /\ Head(t) \in {"+", "-"}
        body == IF signed THEN Tail(t) ELSE t
        ok == body # <<>> /\ \A i \in 1..Len(body) : IsDigit(body[i])
        magnitude == IF ok THEN DigitsValue(body, 0) ELSE 0
    IN  [ok |-> ok, value |-> IF signed /\ Head(t) = "-" THEN 0 - magnitude ELSE magnitude]

\* record = [int(value) for value in line[1:]]
ParseRecord(line) ==
    LET fields == Tail(line)
    IN  [ok |-> \A i \in 1..Len(fields) : ParseInt(fields[i]).ok,
         record |-> [i \in 1..Len(fields) |-> ParseInt(fields[i]).value]]

\* next(reader): what is left of the file for the loop
AfterHeader_Keep(rows) == rows
AfterHeader(rows) == Tail(rows)

\* the fields of the scripts
Plus == <<"+">>
Minus == <<"-">>
Query == <<"?">>
Star == <<"*">>
One == <<"1">>
Two == <<"2">>
SpaceEight == <<" ", "8">>
Negative == <<"-", Digits[NegHashKey + 1]>>
Header == <<<<"o", "p">>, <<"k", "e", "y">>, <<"v">>>>

DataRows ==
    { <<>>,                             \* a blank row
      <<Plus>>,                         \* a row with only the op field
      <<Plus, One, One>>,
      <<Plus, SpaceEight, Two>>,
      <<Plus, Negative, One>>,
      <<Minus, One>>,
      <<Query, SpaceEight>>,
      <<Star, One>>,                    \* an op load_file has no branch for
      <<Plus, <<"x">>, One>>,           \* non-integer fields
      <<Minus, One, <<"1", ".", "5">>>> }

Scripts ==
    {<<>>} \cup
    {<<first>> \o rest : first \in {Header, <<Plus, One, One>>},
                         rest \in UNION {[1..n -> DataRows] : n \in 0..MaxRows}}

LoadInitial ==
    /\ BTreeInit /\ size = NarrowPageSize
    /\ HashInit
    /\ CliIdle
    /\ \E type \in {"btree", "linear"}, rows \in Scripts :
           loader = [type |-> type, rows |-> rows, position |-> 0, status |-> "new",
                     applied |-> <<>>]

\* the row the loop is at
Line == loader.rows[loader.position]
InLoop == loader.status = "loading" /\ loader.position <= Len(loader.rows)

\* the loop moves to the next row; load_file returns after the last one
Advance(call) ==
    loader' = [loader EXCEPT !.position = @ + 1,
                             !.status = IF loader.position = Len(loader.rows)
                                        THEN "done" ELSE "loading",
                             !.applied = IF call = <<>> THEN @ ELSE Append(@, call)]

NoCall == UNCHANGED bvars /\ UNCHANGED hvars

\* open the file and 'next(reader)': StopIteration on a file of no rows
LoadOpen ==
    /\ loader.status = "new"
    /\ loader' = IF loader.rows = <<>>
                 THEN [loader EXCEPT !.status = "error"]
                 ELSE [loader EXCEPT
                         !.position = (Len(loader.rows) - Len(AfterHeader(loader.rows))) + 1,
                         !.status = IF AfterHeader(loader.rows) = <<>> THEN "done"
                                    ELSE "loading"]
    /\ NoCall

\* 'if not line' and 'if len(line) < 2': continue
LoadSkip ==
    /\ InLoop
    /\ Line = <<>> \/ Len(Line) < 2
    /\ Advance(<<>>)
    /\ NoCall

\* int(value) raises ValueError: load_file is left at this row
LoadValueError ==
    /\ InLoop
    /\ Len(Line) >= 2
    /\ ~ParseRecord(Line).ok
    /\ loader' = [loader EXCEPT !.status = "error"]
    /\ NoCall

\* operation == "+": self.insert(record), record a list
LoadInsert ==
    /\ InLoop
    /\ Len(Line) >= 2 /\ ParseRecord(Line).ok
    /\ Line[1] = Plus
    /\ LET record == ParseRecord(Line).record
       IN  /\ IF loader.type = "btree" THEN BTreeInsert(record) ELSE HashInsert(record, TRUE)
           /\ Advance([op |-> "insert", arg |-> record])

\* operation == "-": self.remove(record[0])
LoadRemove ==
    /\ InLoop
    /\ Len(Line) >= 2 /\ ParseRecord(Line).ok
    /\ Line[1] = Minus
    /\ LET key == ParseRecord(Line).record[1]
       IN  /\ IF loader.type = "btree" THEN BTreeRemove(key) ELSE HashRemove(key)
           /\ Advance([op |-> "remove", arg |-> <<key>>])

\* operation == "?": self.search(record[0])
LoadSearch ==
    /\ InLoop
    /\ Len(Line) >= 2 /\ ParseRecord(Line).ok
    /\ Line[1] = Query
    /\ LET key == ParseRecord(Line).record[1]
       IN  /\ IF loader.type = "btree" THEN BTreeSearchOp(key) ELSE HashSearchOp(key)
           /\ Advance([op |-> "search", arg |-> <<key>>])

\* any other operation: no branch is taken
LoadOther ==
    /\ InLoop
    /\ Len(Line) >= 2 /\ ParseRecord(Line).ok
    /\ Line[1] \notin {Plus, Minus, Query}
    /\ Advance(<<>>)
    /\ NoCall

LoadNext ==
    \/ UNCHANGED cli /\ LoadOpen
    \/ UNCHANGED cli /\ LoadSkip
    \/ UNCHANGED cli /\ LoadValueError
    \/ UNCHANGED cli /\ LoadInsert
    \/ UNCHANGED cli /\ LoadRemove
    \/ UNCHANGED cli /\ LoadSearch
    \/ UNCHANGED cli /\ LoadOther

LoadSpec == LoadInitial /\ [][LoadNext]_vars

(***************************************************************************)
(* main(): the command line, the run and the exit status.                  *)
(***************************************************************************)
MinPageSize == 256      \* 'if args.page_size < 256'

\* --type as typed, --page-size, --utilization in tenths, --range given or not
CliTypes == {"btree", "b", "linear", "l", "tree"}
CliPageSizes == {MinPageSize - 1, MinPageSize}
CliUtilizations == {0, 5, 10, 11}
\* -f: not given, the name of no file, or a file of at most one row after
\* its first row (a record of that row fits a page of every size)
CliFiles == {rows \in Scripts : Len(rows) <= 2}

CliInitial ==
    /\ BTreeInit /\ size = NarrowPageSize
    /\ HashInit
    /\ LoaderIdle
    /\ \E type \in CliTypes, page_size \in CliPageSizes, utilization \in CliUtilizations,
          range \in BOOLEAN, file \in {"none", "missing", "present"}, rows \in CliFiles :
           /\ file # "present" => rows = <<>>
           /\ cli = [status |-> "new", type |-> type, page_size |-> page_size,
                     utilization |-> utilization, range |-> range, file |-> file,
                     rows |-> rows, code |-> 0, outcome |-> "none"]

Exit(code, outcome) == cli' = [cli EXCEPT !.status = "exited", !.code = code, !.outcome = outcome]

\* get_arguments(): argparse refuses a --type outside its choices, and
\* parser.error() leaves through SystemExit with status 2
UsageError ==
    \/ cli.type \notin {"btree", "linear", "b", "l"}
    \/ cli.page_size < MinPageSize
    \/ cli.utilization <= 0 \/ cli.utilization > 10
    \/ cli.range /\ cli.type \in {"linear", "l"}

\* 'except SystemExit as e: return e.code'
CliUsage ==
    /\ cli.status = "new"
    /\ UsageError
    /\ Exit(2, "usage")
    /\ UNCHANGED loader /\ NoCall

IndexType == IF cli.type \in {"btree", "b"} THEN "btree" ELSE "linear"

\* run_btree / run_linear_hash up to load_file or menu; open() of
\* load_file raises FileNotFoundError: 'return 1'
CliRun ==
    /\ cli.status = "new"
    /\ ~UsageError
    /\ IF cli.file = "missing"
       THEN Exit(1, "io") /\ UNCHANGED loader
       ELSE /\ cli' = [cli EXCEPT !.status = "running"]
            /\ loader' = IF cli.file = "present"
                         THEN [type |-> IndexType, rows |-> cli.rows, position |-> 0,
                               status |-> "new", applied |-> <<>>]
                         ELSE loader
    /\ NoCall

\* load_file has returned: the range search of --range, then 'return 0'
CliLoaded ==
    /\ cli.status = "running"
    /\ loader.status = "done"
    /\ IF cli.range
       THEN BTreeRangeSearchOp(1, MaxKey)
       ELSE NoCall
    /\ Exit(0, "success")
    /\ UNCHANGED loader

\* load_file has raised (ValueError, StopIteration): 'except Exception: return 1'
CliFailed ==
    /\ cli.status = "running"
    /\ loader.status = "error"
    /\ Exit(1, "exception")
    /\ UNCHANGED loader /\ NoCall

\* menu() is left with its exit option: 'return 0'
CliMenuLeft ==
    /\ cli.status = "running"
    /\ cli.file = "none"
    /\ Exit(0, "success")
    /\ UNCHANGED loader /\ NoCall

\* Ctrl-C during the run: 'except KeyboardInterrupt: return 0'
CliInterrupt ==
    /\ cli.status = "running"
    /\ Exit(0, "interrupt")
    /\ UNCHANGED loader /\ NoCall

CliNext ==
    \/ CliUsage
    \/ CliRun
    \/ cli.status = "running" /\ LoadNext
    \/ CliLoaded
    \/ CliFailed
    \/ CliMenuLeft
    \/ CliInterrupt

CliSpec == CliInitial /\ [][CliNext]_vars

(***************************************************************************)
(* Properties of the Linear Hashing engine, checked under HashSpec.        *)
(***************************************************************************)
StoredRecords == AllRecordsFrom(buckets, 1)
StoredKeys == KeysOf(StoredRecords)
RecordsOf(chain) == {get_all_records(chain)[j] : j \in 1..Len(get_all_records(chain))}
HasOverflow == \E i \in 1..Len(buckets) : Len(buckets[i]) > 1
MapSearch(key) == IF hMap[key] = NoRecord THEN <<>> ELSE <<hMap[key]>>

\* C3: the hash engine refines a key-to-record map: insert returns true iff
\* the key was absent, remove returns true iff the key was present, and
\* search(k) returns the record of the last successful insert of k that no
\* successful remove followed, and nothing otherwise.
C3_HashRefinesMap ==
    /\ hLast.op \in {"insert", "remove"} => hLast.ret = hLast.exp
    /\ hLast.op = "search" => hLast.found = MapSearch(hLast.key)
    /\ \A k \in HKeys : HashSearch(k) = MapSearch(k)

\* C3 witness: an accepted insert that split and ended a round, with a
\* record held in an overflow page and a key removed before
C3_Witness ==
    /\ hLast.op = "insert" /\ hLast.ret /\ hLast.split
    /\ level >= 1
    /\ HasOverflow
    /\ \E k \in HKeys : hMap[k] = NoRecord /\ k # hLast.key /\ num_records >= 3

\* C4: every record stored in the chain of bucket i has a key whose bucket
\* index under the current level and next_split is i.
C4_AddressingConsistent ==
    \A i \in 1..Len(buckets) :
        \A r \in RecordsOf(buckets[i]) : get_bucket_index(r[1]) = i - 1

\* C4 witness: in the middle of a round after the first, records sit in a
\* bucket already split in this round and in the bucket it was split into
C4_Witness ==
    /\ level >= 1 /\ next_split >= 1
    /\ RecordsOf(buckets[1]) # {}
    /\ RecordsOf(buckets[Len(buckets)]) # {}
    /\ \E i \in 1..Len(buckets) : i - 1 >= next_split /\ RecordsOf(buckets[i]) # {}

\* C5: for every key at most one record with that key is stored in the
\* whole table, so search returns at most one record.
C5_HashUnique ==
    \A k \in HKeys : /\ Len(WithKey(StoredRecords, k)) <= 1
                     /\ Len(HashSearch(k)) <= 1

\* C5 witness: an insert was rejected for a key whose record is stored in
\* an overflow page
C5_Witness ==
    /\ hLast.op = "insert" /\ ~hLast.ret
    /\ \E i \in 1..Len(buckets) :
          /\ Len(buckets[i]) > 1
          /\ FirstMatch(buckets[i][1], hLast.key, 0) < 0
          /\ FirstMatch(buckets[i][2], hLast.key, 0) >= 0

\* C6: an insert whose key is already stored returns false and leaves
\* num_records, num_buckets, level, next_split, num_splits and every bucket
\* chain unchanged.
C6_DuplicateIsNoOp ==
    [][(hLast'.op = "insert" /\ hLast'.key \in StoredKeys)
          => /\ hLast'.ret = FALSE
             /\ UNCHANGED <<num_records, num_buckets, level, next_split,
                            num_splits, buckets>>]_vars

\* C6 witness: a rejected insert of a record that differs from the stored
\* one, at a load where an accepted insert would have split
C6_Witness ==
    /\ hLast.op = "insert" /\ ~hLast.ret
    /\ HashSearch(hLast.key) # <<hLast.rec>>
    /\ HashSearch(hLast.key) # <<>>
    /\ need_split(num_records + 1, num_buckets)

\* the load-factor rule as the specification states it:
\* num_records / num_buckets >= U * C with C = page_size / get_size([0, 0, 0])
LoadRule(nr, nb) ==
    nr * UtilDen * (3 * IntSize) >= UtilNum * PageSize * nb

C9_SplitProcedure ==
    [][num_splits' # num_splits =>
          LET old == next_split
              new == next_split + Pow2(level) * InitialBuckets
              target == get_bucket_index(hLast'.key)
              M == Pow2(level + 1) * InitialBuckets
              drained == RecordsOf(buckets[old + 1])
                            \cup (IF target = old THEN {hLast'.rec} ELSE {})
          IN  /\ Len(buckets') = new + 1
              /\ Len(buckets) = new
              /\ RecordsOf(buckets'[old + 1]) = {r \in drained : r[1] % M = old}
              /\ RecordsOf(buckets'[new + 1]) = {r \in drained : r[1] % M = new}
              /\ Len(get_all_records(buckets'[old + 1]))
                    + Len(get_all_records(buckets'[new + 1])) = Cardinality(drained)
              /\ \A r \in drained : r[1] % M \in {old, new}
              /\ \A i \in 1..Len(buckets) :
                    i - 1 \notin {old, target} => buckets'[i] = buckets[i]
              /\ target # old =>
                    RecordsOf(buckets'[target + 1])
                        = RecordsOf(buckets[target + 1]) \cup {hLast'.rec}]_vars

\* C9 witness: a split of a bucket other than the one that received the
\* record, which moved a record to the new bucket and kept one in the old
C9_Witness ==
    /\ hLast.op = "insert" /\ hLast.split
    /\ num_splits >= 2
    /\ LET old == IF next_split = 0 THEN Len(buckets) - 1 - (Len(buckets) \div 2)
                                    ELSE next_split - 1
       IN  /\ get_bucket_index(hLast.key) # old
           /\ get_bucket_index(hLast.key) # Len(buckets) - 1
           /\ RecordsOf(buckets[old + 1]) # {}
           /\ RecordsOf(buckets[Len(buckets)]) # {}

\* C10: each split advances next_split by one, and when it reaches
\* 2^level * N0 the level is incremented and next_split reset to 0; so
\* 0 <= next_split < 2^level * N0 always, and level never decreases.
C10_SplitPointerProtocol ==
    /\ [](0 <= next_split /\ next_split < Pow2(level) * InitialBuckets)
    /\ [][/\ level' >= level
          /\ num_splits' = num_splits + 1 =>
                IF next_split + 1 = Pow2(level) * InitialBuckets
                THEN level' = level + 1 /\ next_split' = 0
                ELSE level' = level /\ next_split' = next_split + 1
          /\ num_splits' = num_splits => level' = level /\ next_split' = next_split]_vars

\* C10 witness: a round was completed and the next one has begun
C10_Witness == level = 1 /\ next_split = 1 /\ hLast.split

(***************************************************************************)
(* Properties of the B-tree, checked under BTreeSpec.                      *)
(***************************************************************************)
\* C1: after any sequence of inserts and removes with pairwise distinct
\* keys, search(k) returns exactly the one record inserted with key k, for
\* every key k inserted and not removed since.
C1_RoundTrip ==
    bDistinct => \A i \in 1..Len(bLive) : BTreeSearch(root, bLive[i][1]) = <<bLive[i]>>

\* C2: immediately after insert(r) returns, search(r[0]) contains r.
C2_SearchAfterInsert ==
    bLast.op = "insert" =>
        \E i \in 1..Len(BTreeSearch(root, bLast.key)) :
            BTreeSearch(root, bLast.key)[i] = bLast.rec

\* C7: after any sequence of inserts in which several records share a key
\* k, search(k) returns every stored record with key k, in the order in
\* which they were inserted.
C7_DuplicatesInOrder ==
    bRemoves = 0 => \A k \in BKeys : BTreeSearch(root, k) = WithKey(bLive, k)

(***************************************************************************)
(* Walks over the pages of the tree.  The children of a non-leaf page are  *)
(* the slots at Python positions 0, 2, ... of its data, as every traversal *)
(* of the code visits them (for i in range(0, len(node.data), 2)).         *)
(***************************************************************************)
ChildSlots(p) == {i \in 1..Len(DataOf(p)) : i % 2 = 1}

\* every non-leaf page under p (p included) has a payload of odd length
RECURSIVE OddShape(_)
OddShape(p) ==
    IsLeaf(p) \/ (/\ Len(DataOf(p)) % 2 = 1
                  /\ \A i \in ChildSlots(p) : OddShape(DataOf(p)[i]))

\* C12: in every reachable state every NonLeafPage has a payload of odd
\* length (children at even positions, keys at odd positions), so after
\* NonLeafPage.split the retained page ends with a child.
C12_InternalShape == OddShape(root)

\* the records met by a full traversal of the leaves, left to right
\* (_range_search_helper over the whole key range, _count_records)
RECURSIVE AllRecords(_), RecordsFrom(_, _)
AllRecords(p) == IF IsLeaf(p) THEN DataOf(p) ELSE RecordsFrom(DataOf(p), 1)
RecordsFrom(data, i) ==
    IF i > Len(data) THEN <<>> ELSE AllRecords(data[i]) \o RecordsFrom(data, i + 2)

\* two lists hold the same records the same number of times
CountOf(s, r) == Cardinality({i \in 1..Len(s) : s[i] = r})
SameBag(s, t) ==
    \A a \in {s} : \A b \in {t} :
        /\ Len(a) = Len(b)
        /\ \A i \in 1..Len(a) : CountOf(a, a[i]) = CountOf(b, a[i])

\* C11: a split keeps the multiset of stored records: a B-tree insert that
\* split pages (a leaf, an internal page, the root) leaves in the leaves
\* exactly the records held before plus the inserted one, and a hash insert
\* that split a bucket leaves in the chains exactly the records held before
\* plus the inserted one.
C11_SplitsPreserveContents ==
    [][/\ count_nodes(root') > count_nodes(root)
             => SameBag(AllRecords(root'), Append(AllRecords(root), bLast'.rec))
       /\ num_splits' > num_splits
             => SameBag(StoredRecords', Append(StoredRecords, hLast'.rec))]_vars

\* C11 witness: one insert split a leaf, the internal page above it and the
\* root, and the four records inserted are all in the leaves
C11_Witness ==
    /\ bLast.op = "insert" /\ bLast.split
    /\ get_height(root) = 4
    /\ SameBag(AllRecords(root), bLive) /\ Len(bLive) = 4

\* the keys of the records stored in the subtree of p
KeysUnder(p) == KeysOf(AllRecords(p))

\* in every non-leaf page under p, the keys under a child are below the
\* separator to its right and not below the separator to its left
RECURSIVE SeparatorsBound(_)
SeparatorsBound(p) ==
    IsLeaf(p) \/
    \A i \in ChildSlots(p) :
        /\ SeparatorsBound(DataOf(p)[i])
        /\ i + 1 <= Len(DataOf(p)) => \A k \in KeysUnder(DataOf(p)[i]) : k < DataOf(p)[i + 1]
        /\ i - 1 >= 1 => \A k \in KeysUnder(DataOf(p)[i]) : k >= DataOf(p)[i - 1]

\* C13: in every reachable state, for every internal page [c0,k0,c1,...,cn]
\* every record key in the subtree of ci is < ki (i < n) and >= k(i-1)
\* (i > 0), also after leaf, internal-page and root splits.
C13_SeparatorBounds == SeparatorsBound(root)

\* the separator keys of every non-leaf page under p increase strictly
RECURSIVE SeparatorsIncrease(_)
SeparatorsIncrease(p) ==
    IsLeaf(p) \/
    (/\ \A i \in 1..(Len(NonLeafKeyList(p)) - 1) : NonLeafKeyList(p)[i] < NonLeafKeyList(p)[i + 1]
     /\ \A i \in ChildSlots(p) : SeparatorsIncrease(DataOf(p)[i]))

\* C14: after any sequence of inserts (equal keys allowed) and removes, the
\* separator keys of every internal page increase strictly from left to
\* right.
C14_SeparatorsOrdered == SeparatorsIncrease(root)

\* the keys of every leaf under p are in non-decreasing order
RECURSIVE LeavesSorted(_)
LeavesSorted(p) ==
    IF IsLeaf(p)
    THEN \A i \in 1..(Len(DataOf(p)) - 1) : DataOf(p)[i][1] <= DataOf(p)[i + 1][1]
    ELSE \A i \in ChildSlots(p) : LeavesSorted(DataOf(p)[i])

\* C15: in every reachable state the keys of the records of every leaf page
\* are in non-decreasing order.
C15_LeafOrdering == LeavesSorted(root)

\* C15 witness: a leaf that came out of a split holds two records of
\* different keys, a record was inserted before another and one was removed
C15_Witness ==
    /\ ~IsLeaf(root)
    /\ bRemoves >= 1
    /\ bLast.op = "insert"
    /\ \E i \in ChildSlots(root) :
          /\ IsLeaf(DataOf(root)[i])
          /\ Len(DataOf(root)[i][2]) = 2
          /\ DataOf(root)[i][2][1] = bLast.rec
          /\ DataOf(root)[i][2][1][1] < DataOf(root)[i][2][2][1]

\* every leaf under p has an occupied size within the page size
RECURSIVE LeavesWithin(_)
LeavesWithin(p) ==
    IF IsLeaf(p) THEN used_space(p) <= size
    ELSE \A i \in ChildSlots(p) : LeavesWithin(DataOf(p)[i])

\* C16: the records have one size and two of them fit in a page; whenever
\* BTreeIndex.insert has returned, every leaf page of the tree has
\* used_space <= size: the overflow of the insert was relieved by a split.
C16_NoOverfullLeaf ==
    (\A r \in BRecords : 2 * TupleSizeOf(r) <= size) => LeavesWithin(root)

\* C16 witness: an insert overflowed a leaf below the root, the root split
\* that leaf and was not split itself, and a full leaf is in the tree
C16_Witness ==
    /\ bLast.op = "insert" /\ ~bLast.split
    /\ ~IsLeaf(root) /\ Len(DataOf(root)) = 5
    /\ \A r \in BRecords : 2 * TupleSizeOf(r) <= size
    /\ \E i \in ChildSlots(root) :
          /\ IsLeaf(DataOf(root)[i])
          /\ used_space(DataOf(root)[i]) + TupleSizeOf(bLast.rec) > size
          /\ \E j \in 1..Len(DataOf(root)[i][2]) : DataOf(root)[i][2][j] = bLast.rec

\* C17: the tree starts with height 1; an insert that splits the root
\* makes the height exactly the old height + 1; an insert that does not
\* split the root, a remove and a search do not increase the height.
C17_HeightGrowth ==
    /\ get_height(root) = 1
    /\ [][IF bOps' = bOps + 1 /\ bLast'.op = "insert" /\ bLast'.split
          THEN get_height(root') = get_height(root) + 1
          ELSE get_height(root') <= get_height(root)]_vars

\* C17 witness: after a remove, an insert split an internal root and the
\* height became 3
C17_Witness ==
    /\ bLast.op = "insert" /\ bLast.split
    /\ bRemoves >= 1
    /\ get_height(root) = 3

\* an internal page whose payload is one child and no key
SingleChild(p) == ~IsLeaf(p) /\ Len(DataOf(p)) = 1

C19_RemoveExactlyOne ==
    [][(bLast'.op = "remove" /\ bOps' = bOps + 1 /\ bLast'.ret
          /\ Len(WithKey(AllRecords(root), bLast'.key)) >= 1)
          => /\ Len(BTreeSearch(root', bLast'.key))
                   = Len(WithKey(AllRecords(root), bLast'.key)) - 1
             /\ AllRecords(root') = DropFirstWithKey(AllRecords(root), bLast'.key)
             /\ \A k \in BKeys \ {bLast'.key} :
                   BTreeSearch(root', k) = BTreeSearch(root, k)]_vars

\* C20: a remove of a key that no stored record has returns false and
\* changes nothing: the root and the pages of the tree; the buckets,
\* num_records, level, next_split, num_splits and num_buckets of the hash
\* index.
C20_AbsentRemoveIsNoOp ==
    [][/\ (bLast'.op = "remove" /\ bOps' = bOps + 1 /\ bLast'.key \notin KeysUnder(root))
             => bLast'.ret = FALSE /\ UNCHANGED <<root, size>>
       /\ (hLast'.op = "remove" /\ hLast'.key \notin StoredKeys)
             => /\ hLast'.ret = FALSE
                /\ UNCHANGED <<buckets, num_records, level, next_split,
                               num_splits, num_buckets>>]_vars

\* C20 witness: a remove returned false for a key absent from a bucket that
\* has an overflow page with a record in it, after a split
C20_Witness ==
    /\ hLast.op = "remove" /\ ~hLast.ret
    /\ num_splits >= 1
    /\ Len(buckets[get_bucket_index(hLast.key) + 1]) > 1
    /\ buckets[get_bucket_index(hLast.key) + 1][2] # <<>>

\* the same case on the tree: a remove returned false for a key absent from
\* a tree whose root is an internal page
C20_TreeCase ==
    /\ bLast.op = "remove" /\ ~bLast.ret
    /\ ~IsLeaf(root)
    /\ bLast.key \notin KeysUnder(root)
    /\ root # LeafPage(<<>>)

C21_TreeCase ==
    /\ bLast.op = "range_search" /\ Len(bLast.found) >= 2
    /\ ~IsLeaf(root)
    /\ bLast.found[1][1] < bLast.found[Len(bLast.found)][1]

\* C22: in a run where every insert has a key not stored at the time and
\* every remove a key inserted and not removed since, the num_records of
\* the tree's statistics is the number of inserts minus the number of
\* removes: every insert added one stored record, every remove deleted one.
C22_TreeRecordCount == bFresh => count_records(root) = Len(bLive)

\* C23: in every reachable state num_records equals the number of records
\* stored over all bucket chains, which equals the number of inserts that
\* returned true minus the number of removes that returned true; a split
\* does not change the count beyond the record of the insert that caused it.
C23_HashRecordCount ==
    /\ [](num_records = Len(StoredRecords) /\ num_records = hNet)
    /\ [][num_splits' > num_splits
             => /\ num_records' = num_records + 1
                /\ Len(StoredRecords') = Len(StoredRecords) + 1]_vars

\* C23 witness: an insert split a bucket and sent a record to the new one,
\* and records were removed before (every split follows an insert that
\* returned true, and the first insert does not split)
C23_Witness ==
    /\ hLast.op = "insert" /\ hLast.split
    /\ num_records >= 3 /\ num_splits >= num_records
    /\ RecordsOf(buckets[Len(buckets)]) # {}

\* the integer keys the addressing is checked for, the keys of the runs and
\* the integers between and around them, negative ones included
AnyKeys == (0 - MaxHashKey - NegHashKey)..(MaxHashKey + NegHashKey)

\* C24: in every reachable state and for every integer key k, negative keys
\* included, _hash(k, level) lies in [0, 2^level * N0) and
\* _get_bucket_index(k) lies in [0, len(buckets)): no call addresses a
\* bucket that does not exist.
C24_BucketIndexInRange ==
    /\ Len(buckets) = num_buckets
    /\ \A k \in AnyKeys :
          /\ 0 <= Hash(k, level) /\ Hash(k, level) < Pow2(level) * InitialBuckets
          /\ 0 <= Hash(k, level + 1) /\ Hash(k, level + 1) < Pow2(level + 1) * InitialBuckets
          /\ 0 <= get_bucket_index(k) /\ get_bucket_index(k) < Len(buckets)

\* C24 witness: in the middle of a round, the last call took a negative key
\* to a bucket that a split of this round has appended
C24_Witness ==
    /\ hLast.op \in {"insert", "remove", "search"} /\ hLast.key < 0
    /\ next_split >= 1
    /\ Hash(hLast.key, level) < next_split
    /\ get_bucket_index(hLast.key) >= Pow2(level) * InitialBuckets

\* C25: Linear Hashing never shrinks: on every step num_buckets, level and
\* num_splits do not decrease and every bucket of the table stays in it;
\* a remove changes none of num_buckets, level, next_split, num_splits and
\* the length of the table, even when it takes out the last record.
C25_NeverShrinks ==
    [][/\ num_buckets' >= num_buckets
       /\ level' >= level
       /\ num_splits' >= num_splits
       /\ Len(buckets') >= Len(buckets)
       /\ hLast'.op = "remove"
             => /\ UNCHANGED <<num_buckets, level, next_split, num_splits>>
                /\ Len(buckets') = Len(buckets)]_vars

\* C25 witness: a remove took the last record out of a table that had
\* completed a round and split again
C25_Witness ==
    /\ hLast.op = "remove" /\ hLast.ret
    /\ num_records = 0 /\ StoredRecords = <<>>
    /\ level >= 1 /\ next_split >= 1
    /\ num_buckets > InitialBuckets

(***************************************************************************)
(* Properties of the range search.                                         *)
(***************************************************************************)
\* the records of a list whose key lies in [min_key, max_key], in list order
RECURSIVE InRange(_, _, _)
InRange(s, min_key, max_key) ==
    IF s = <<>> THEN <<>>
    ELSE (IF min_key <= Head(s)[1] /\ Head(s)[1] <= max_key THEN <<Head(s)>> ELSE <<>>)
            \o InRange(Tail(s), min_key, max_key)

\* C26: in every reachable state range_search(lo, hi) returns exactly the
\* multiset of the records held in the leaves of the tree whose key k
\* satisfies lo <= k <= hi.
C26_RangeSearchExact ==
    /\ \A lo \in BKeys, hi \in BKeys :
          SameBag(range_search(root, lo, hi), InRange(AllRecords(root), lo, hi))
    /\ bLast.op = "range_search"
          => SameBag(bLast.found, InRange(AllRecords(root), bLast.key, bLast.max_key))

\* C26 witness: a range search returned some but not all of the records of
\* a tree in which search misses a stored key that the range search returns
C26_Witness ==
    /\ bLast.op = "range_search" /\ bLast.key < bLast.max_key
    /\ Len(bLast.found) >= 2 /\ Len(bLast.found) < count_records(root)
    /\ \E i \in 1..Len(bLast.found) : BTreeSearch(root, bLast.found[i][1]) = <<>>
    /\ bRemoves >= 1

(***************************************************************************)
(* Properties of the calls as a whole: termination, the script loader and  *)
(* the command line.                                                       *)
(***************************************************************************)
\* C27: every LinearHashIndex.insert runs to completion: it returns true or
\* false and raises nothing, also for a record whose size exceeds the page
\* size so that no page of the chain has room for it.
C27_InsertCompletes == hLast.op = "insert" => ~hLast.raised /\ hLast.ret \in BOOLEAN

(***************************************************************************)
(* Properties of the script loader, checked under LoadSpec.                *)
(***************************************************************************)
\* the integer each integer field of the scripts denotes
FieldValue == (One :> 1) @@ (Two :> 2) @@ (SpaceEight :> 8) @@ (Negative :> (0 - NegHashKey))
Malformed(line) == Len(line) >= 2 /\ \E i \in 2..Len(line) : line[i] \notin DOMAIN FieldValue
IntegerRecord(line) == [i \in 1..(Len(line) - 1) |-> FieldValue[line[i + 1]]]

\* the calls a list of well-formed rows asks for, in the order of the rows
RECURSIVE ExpectedCalls(_)
ExpectedCalls(lines) ==
    IF lines = <<>> THEN <<>>
    ELSE LET line == Head(lines)
             rest == ExpectedCalls(Tail(lines))
         IN  IF Len(line) < 2 THEN rest
             ELSE IF line[1] = Plus
                  THEN <<[op |-> "insert", arg |-> IntegerRecord(line)]>> \o rest
             ELSE IF line[1] = Minus
                  THEN <<[op |-> "remove", arg |-> <<IntegerRecord(line)[1]>>]>> \o rest
             ELSE IF line[1] = Query
                  THEN <<[op |-> "search", arg |-> <<IntegerRecord(line)[1]>>]>> \o rest
             ELSE rest

\* the rows between the first row and the row the loop is at
RowsRead == SubSeq(loader.rows, 2, loader.position - 1)

\* the call of the engine a row asks for, as made directly
DirectCall(call) ==
    IF loader.type = "btree"
    THEN CASE call.op = "insert" -> BTreeInsert(call.arg)
           [] call.op = "remove" -> BTreeRemove(call.arg[1])
           [] call.op = "search" -> BTreeSearchOp(call.arg[1])
    ELSE CASE call.op = "insert" -> HashInsert(call.arg, TRUE)
           [] call.op = "remove" -> HashRemove(call.arg[1])
           [] call.op = "search" -> HashSearchOp(call.arg[1])

\* C28: load_file discards the first row and applies the rows after it in
\* file order: at every row the calls made so far are those of the rows
\* read so far ('+' insert of the integer record, '-' remove of v0, '?'
\* search of v0), each step of the engine is the step of that call made
\* directly, and a blank row or a row with only the op field leaves the
\* engine as it was
C28_LoaderOrdering ==
    /\ [](loader.status \in {"loading", "done"} => loader.applied = ExpectedCalls(RowsRead))
    /\ [](loader.status = "done" => loader.position = Len(loader.rows) + 1)
    /\ [][/\ (loader.status = "loading" /\ Len(Line) < 2)
               => (UNCHANGED bvars /\ UNCHANGED hvars /\ loader'.applied = loader.applied)
          /\ loader'.applied # loader.applied
               => /\ Len(loader'.applied) = Len(loader.applied) + 1
                  /\ DirectCall(loader'.applied[Len(loader'.applied)])
          /\ loader'.applied = loader.applied => (UNCHANGED bvars /\ UNCHANGED hvars)]_vars

\* a file whose first row is a data row, then an insert, a blank row and the
\* remove of the inserted key: the engine holds nothing at the end
C28_Witness ==
    /\ loader.status = "done"
    /\ loader.type = "linear"
    /\ loader.rows[1] = <<Plus, One, One>>
    /\ \E i \in 2..Len(loader.rows) : Len(loader.rows[i]) < 2
    /\ loader.applied = <<[op |-> "insert", arg |-> <<1, 1>>], [op |-> "remove", arg |-> <<1>>]>>
    /\ hLast.op = "remove" /\ hLast.ret
    /\ num_records = 0

\* C29: a row with an op field and a non-integer value field aborts
\* load_file at that row: the rows before it have been applied, the row
\* itself changes nothing in the engine, and nothing is applied after it
C29_LoaderParseError ==
    /\ [](loader.status \in {"loading", "done"}
            => \A i \in 2..(loader.position - 1) : ~Malformed(loader.rows[i]))
    /\ []((loader.status = "error" /\ loader.rows # <<>>)
            => /\ Malformed(Line)
               /\ \A i \in 2..(loader.position - 1) : ~Malformed(loader.rows[i])
               /\ loader.applied = ExpectedCalls(RowsRead))
    /\ [][/\ (loader.status = "loading" /\ Malformed(Line))
               => (loader'.status = "error" /\ UNCHANGED bvars /\ UNCHANGED hvars)
          /\ loader.status # "error"]_vars

\* the file has a row after the malformed one, and a row applied before it
C29_Witness ==
    /\ loader.status = "error"
    /\ loader.position = 3
    /\ Len(loader.rows) = 4
    /\ loader.rows[4] = <<Plus, SpaceEight, Two>>
    /\ loader.applied = <<[op |-> "insert", arg |-> <<1, 1>>]>>
    /\ loader.type = "btree" /\ Len(bLive) = 1

(***************************************************************************)
(* Properties of main(), checked under CliSpec.                            *)
(***************************************************************************)
\* C30: main() yields 0 when the run succeeds, 1 on a usage error and on a
\* missing file, 130 when the run is interrupted
C30_ExitCodes ==
    cli.status = "exited"
        => /\ cli.outcome = "success" => cli.code = 0
           /\ cli.outcome = "usage" => cli.code = 1
           /\ cli.outcome = "io" => cli.code = 1
           /\ cli.outcome = "interrupt" => cli.code = 130

(***************************************************************************)
(* Properties of the B-tree pages and of the tree as a whole.              *)
(***************************************************************************)
NonDecreasing(L) == \A i \in 1..(Len(L) - 1) : L[i] <= L[i + 1]

\* a linear scan of a key list: the first position (from 0) whose key is
\* above the key, the length of the list if there is none
FirstAbove(L, key) ==
    IF \E i \in 1..Len(L) : L[i] > key
    THEN (CHOOSE i \in 1..Len(L) : L[i] > key /\ \A j \in 1..(i - 1) : L[j] <= key) - 1
    ELSE Len(L)

\* the keys a page is searched with: the keys of the records and one below
\* and one above them
ProbeKeys == 0..(MaxKey + 1)

\* on every page under p whose key list is non-decreasing, binary_search
\* gives the position of the linear scan: in a leaf the position after the
\* last record whose key is not above the key, in a non-leaf page twice
\* that position, where the page has the child to descend to
RECURSIVE SearchAgrees(_)
SearchAgrees(p) ==
    IF IsLeaf(p)
    THEN NonDecreasing(LeafKeyList(p))
           => \A key \in ProbeKeys : LeafBinarySearch(p, key) = FirstAbove(LeafKeyList(p), key)
    ELSE /\ NonDecreasing(NonLeafKeyList(p))
           => \A key \in ProbeKeys :
                /\ NonLeafBinarySearch(p, key) = 2 * FirstAbove(NonLeafKeyList(p), key)
                /\ NonLeafBinarySearch(p, key) < Len(DataOf(p))
         /\ \A i \in ChildSlots(p) : SearchAgrees(DataOf(p)[i])

\* C31: binary_search agrees with a linear scan of a non-decreasing key
\* list (the first position whose key is above the key); on a non-leaf page
\* it returns twice that position, so that a key equal to a separator
\* descends to the child to the right of it and a key not below any
\* separator descends to the last child.
C31_BinarySearchDescent == SearchAgrees(root)

\* the part of C31 that is about the positions alone
RECURSIVE PositionsAgree(_)
PositionsAgree(p) ==
    /\ NonDecreasing(get_key_list(p))
         => \A key \in ProbeKeys :
               IF IsLeaf(p) THEN LeafBinarySearch(p, key) = FirstAbove(LeafKeyList(p), key)
               ELSE NonLeafBinarySearch(p, key) = 2 * FirstAbove(NonLeafKeyList(p), key)
    /\ IsLeaf(p) \/ \A i \in ChildSlots(p) : PositionsAgree(DataOf(p)[i])
C31_PositionsOnly == PositionsAgree(root)

\* LeafPage.split of a leaf of two or more records: the retained leaf has
\* the records [0:mid), the new leaf the records [mid:len), neither is
\* empty, together they are the leaf as it was, and the first key of the
\* new leaf is not below a retained key and not above a key of the new leaf
SplitsInHalves(q) ==
    LET data == DataOf(q)
        mid == Len(data) \div 2
        retained == DataOf(LeafSplit(q)[1])
        new_page == DataOf(LeafSplit(q)[2])
    IN  Len(data) >= 2 =>
            /\ retained = [i \in 1..mid |-> data[i]]
            /\ new_page = [i \in 1..(Len(data) - mid) |-> data[mid + i]]
            /\ retained # <<>> /\ new_page # <<>>
            /\ retained \o new_page = data
            /\ \A i \in 1..Len(retained) : retained[i][1] <= SeparatorOf(LeafSplit(q)[2])
            /\ \A i \in 1..Len(new_page) : SeparatorOf(LeafSplit(q)[2]) <= new_page[i][1]

\* every leaf under p that an insert of a record overfills is split in halves
RECURSIVE LeafSplitsInHalves(_)
LeafSplitsInHalves(p) ==
    IF IsLeaf(p)
    THEN \A record \in BRecords :
            used_space(LeafInsert(p, record)) > size => SplitsInHalves(LeafInsert(p, record))
    ELSE \A i \in ChildSlots(p) : LeafSplitsInHalves(DataOf(p)[i])

\* C32: LeafPage.split of a leaf of len >= 2 records keeps the records
\* [0:mid) and returns a new leaf with the records [mid:len), mid =
\* floor(len/2); both leaves are non-empty, retained + new is the leaf as it
\* was, and the first key of the new leaf (the separator) is >= every key
\* retained and <= every key of the new leaf.
C32_LeafSplit == LeafSplitsInHalves(root)

\* C32 witness: the third insert overfilled the root leaf of two records;
\* the split left one record in the retained leaf and two in the new one,
\* with the first key of the new leaf as separator
C32_Witness ==
    /\ size = WidePageSize
    /\ bLast.op = "insert" /\ bLast.split /\ bOps = 3 /\ Len(bLive) = 3
    /\ ~IsLeaf(root) /\ Len(DataOf(root)) = 3
    /\ IsLeaf(DataOf(root)[1]) /\ Len(DataOf(DataOf(root)[1])) = 1
    /\ IsLeaf(DataOf(root)[3]) /\ Len(DataOf(DataOf(root)[3])) = 2
    /\ DataOf(root)[2] = DataOf(DataOf(root)[3])[1][1]
    /\ DataOf(DataOf(root)[1])[1][1] < DataOf(root)[2]
    /\ SplitsInHalves(LeafPage(DataOf(DataOf(root)[1]) \o DataOf(DataOf(root)[3])))

\* the tree under p without the records: every leaf emptied, the non-leaf
\* pages with their children and separator keys
RECURSIVE Skeleton(_)
Skeleton(p) ==
    IF IsLeaf(p) THEN LeafPage(<<>>)
    ELSE NonLeafPage([i \in 1..Len(DataOf(p)) |->
                        IF i % 2 = 1 THEN Skeleton(DataOf(p)[i]) ELSE DataOf(p)[i]])

\* the payloads of the leaves under p, left to right
RECURSIVE LeafPayloads(_), PayloadsFrom(_, _)
LeafPayloads(p) == IF IsLeaf(p) THEN <<DataOf(p)>> ELSE PayloadsFrom(DataOf(p), 1)
PayloadsFrom(data, i) ==
    IF i > Len(data) THEN <<>> ELSE LeafPayloads(data[i]) \o PayloadsFrom(data, i + 2)

\* payload b is payload a without one of its records with the key
OneRecordLess(a, b, key) ==
    \E j \in 1..Len(a) : a[j][1] = key /\ b = ListPop(a, j - 1)

\* from tree p to tree q at most one leaf changed, by losing one record
\* with the key, and no non-leaf page changed
OnlyOneLeafChanged(p, q, key) ==
    \A a \in {LeafPayloads(p)} : \A b \in {LeafPayloads(q)} :
        /\ Skeleton(q) = Skeleton(p)
        /\ Len(a) = Len(b)
        /\ Cardinality({i \in 1..Len(a) : a[i] # b[i]}) <= 1
        /\ \A i \in 1..Len(a) : a[i] # b[i] => OneRecordLess(a[i], b[i], key)

\* BTreeIndex.remove takes its collapse branch on this call
Collapses(r, key) == ~IsLeaf(r) /\ Len(DataOf(PageRemove(r, key).page)) = 1

\* C33: BTreeIndex.remove changes the payload of at most one leaf, by
\* deleting one record, and leaves the children and separator keys of every
\* non-leaf page as they were, also when the key equals a separator or the
\* leaf becomes empty; the numbers of nodes and of leaves are unchanged
\* unless the root is collapsed.
C33_RemoveKeepsStructure ==
    [][(bLast'.op = "remove" /\ bOps' = bOps + 1 /\ ~Collapses(root, bLast'.key))
          => /\ OnlyOneLeafChanged(root, root', bLast'.key)
             /\ count_nodes(root') = count_nodes(root)
             /\ count_leaf_nodes(root') = count_leaf_nodes(root)]_vars

\* C33 witness: a remove of a key equal to a separator of the root emptied
\* the leaf to the right of that separator; separator and leaf are in place
C33_Witness ==
    /\ bLast.op = "remove" /\ bLast.ret
    /\ ~IsLeaf(root)
    /\ \E i \in ChildSlots(root) :
          /\ i + 2 <= Len(DataOf(root))
          /\ DataOf(root)[i + 1] = bLast.key
          /\ DataOf(root)[i + 2] = LeafPage(<<>>)
    /\ Len(bLive) >= 1

(***************************************************************************)
(* Properties of a bucket chain, checked under ChainSpec.                  *)
(***************************************************************************)
\* C34: every page of the chain, the head and each overflow page, has an
\* occupied size of at most the page size.
C34_PagesWithinSize ==
    \A i \in 1..Len(buckets[1]) : SumTupleSizes(buckets[1][i]) <= OddPageSize

\* the number of pages on the shortest path from p down to a leaf
RECURSIVE ShortestPath(_)
ShortestPath(p) ==
    IF IsLeaf(p) THEN 1
    ELSE 1 + (CHOOSE h \in {ShortestPath(DataOf(p)[i]) : i \in ChildSlots(p)} :
                 \A i \in ChildSlots(p) : h <= ShortestPath(DataOf(p)[i]))

\* the children of every non-leaf page under p are all leaves or all
\* non-leaf pages
RECURSIVE SameKindChildren(_)
SameKindChildren(p) ==
    IsLeaf(p) \/
    (/\ \A i, j \in ChildSlots(p) : IsLeaf(DataOf(p)[i]) = IsLeaf(DataOf(p)[j])
     /\ \A i \in ChildSlots(p) : SameKindChildren(DataOf(p)[i]))

\* C35: in every reachable state all children of an internal page are of
\* one kind (all leaves or all internal pages) and every path from the root
\* to a leaf has the same length, which is the height of the statistics
\* (1 + the maximum height of a child).
C35_UniformDepth ==
    /\ SameKindChildren(root)
    /\ ShortestPath(root) = get_height(root)

\* C35 witness: a tree of height 3 with three leaves below two internal
\* pages of different payload lengths, after a remove
C35_Witness ==
    /\ get_height(root) = 3
    /\ count_leaf_nodes(root) = 3
    /\ bRemoves >= 1
    /\ \E i, j \in ChildSlots(root) : Len(DataOf(DataOf(root)[i])) # Len(DataOf(DataOf(root)[j]))

\* C36: in every reachable state and for every key k, search(k) returns the
\* same records, each as often, as range_search(k, k): no record of a leaf
\* is out of the reach of the descent for its key.
C36_SearchReachesAll ==
    \A k \in BKeys : SameBag(BTreeSearch(root, k), range_search(root, k, k))

(***************************************************************************)
(* The bucket count of the hash engine, checked under HashSpec.            *)
(***************************************************************************)
\* C37: in every reachable state num_buckets = len(buckets) = N0 +
\* num_splits = 2^level * N0 + next_split; the bucket a split appends has
\* the list index next_split + 2^level * N0 (pointer and level as before
\* the split), and with next_split = 0 the table has 2^level * N0 buckets.
C37_BucketCount ==
    /\ [](/\ num_buckets = Len(buckets)
          /\ num_buckets = InitialBuckets + num_splits
          /\ num_buckets = Pow2(level) * InitialBuckets + next_split
          /\ next_split = 0 => Len(buckets) = Pow2(level) * InitialBuckets)
    /\ [][num_splits' # num_splits
            => /\ num_splits' = num_splits + 1
               /\ Len(buckets') = Len(buckets) + 1
               /\ Len(buckets') - 1 = next_split + Pow2(level) * InitialBuckets]_vars

\* C37 witness: the split that ended the round of level 1 has just appended
\* a bucket; the pointer is back at 0 and the table has doubled twice
C37_Witness ==
    /\ hLast.op = "insert" /\ hLast.split
    /\ level = 2 /\ next_split = 0
    /\ Len(buckets) = 4 * InitialBuckets
    /\ num_splits = 3 * InitialBuckets

\* C38: over any sequence of inserts and removes, also when every record
\* is removed, the height of the statistics never decreases: no reachable
\* internal root has a payload of length 1, and no call of
\* BTreeIndex.remove takes the collapse branch.
C38_HeightNeverDecreases ==
    /\ [](~IsLeaf(root) => Len(DataOf(root)) # 1)
    /\ [][/\ get_height(root') >= get_height(root)
          /\ bLast'.op = "remove" => ~Collapses(root, bLast'.key)]_vars

\* C38 witness: the last record has been removed from a tree that inserts
\* had split; the tree keeps its height over empty leaves
C38_Witness ==
    /\ bLast.op = "remove" /\ bLast.ret
    /\ bRemoves >= 2
    /\ bLive = <<>> /\ count_records(root) = 0
    /\ get_height(root) >= 2

\* the keys of a list of records, in the order of the list
KeysInOrder(s) == [i \in 1..Len(s) |-> s[i][1]]

\* C39: in every reachable state the leaf payloads, concatenated from left to
\* right, have non-decreasing keys, and so has the result of every
\* range_search
C39_GlobalLeafOrder ==
    /\ NonDecreasing(KeysInOrder(AllRecords(root)))
    /\ \A lo \in ProbeKeys : \A hi \in ProbeKeys :
          NonDecreasing(KeysInOrder(range_search(root, lo, hi)))
    /\ bLast.op = "range_search" => NonDecreasing(KeysInOrder(bLast.found))

\* a range_search has returned records of two keys from a tree whose root
\* has three leaves or more
C39_Witness ==
    /\ bLast.op = "range_search"
    /\ Cardinality(KeysOf(bLast.found)) >= 2
    /\ ~IsLeaf(root) /\ Len(DataOf(root)) >= 5
    /\ Cardinality(KeysOf(AllRecords(root))) >= 2

====
